---- MODULE Spec2Model ----
(***************************************************************************)
(* EB_LLVMcomponent (easybuild/easyblocks/l/llvmcomponent.py): the         *)
(* easyblock that configures, builds (1 stage, or 3 when bootstrapping),   *)
(* tests, installs and sanity-checks one LLVM sub-project.                 *)
(*                                                                         *)
(* Representation of Python values:                                        *)
(*  - an optional value is None (<<>>) or Some(v) (<<v>>);                 *)
(*  - an easyconfig name, a version-independent project name and a CUDA    *)
(*    capability are sequences of one-character strings, so that lower(),  *)
(*    startswith(), slicing, replace() and string comparison are computed  *)
(*    character by character;                                              *)
(*  - a file system path on which only os.path.join / os.path.dirname act  *)
(*    is the sequence of its components;                                   *)
(*  - an expected file of the sanity check is the sequence of the pieces   *)
(*    of its name cut around every occurrence of ".so", so that            *)
(*    str.endswith('.so') and str.replace('.so', ...) act on the pieces;   *)
(*  - a line of test output is a sequence of one-character strings and the *)
(*    output of a test target is the sequence of its lines.                *)
(***************************************************************************)
EXTENDS Integers, Sequences, FiniteSets, TLC

VARIABLES
    pc,             \* position of the run in the easyblock's step sequence
    err,            \* the exception that ended the run ([kind |-> "none"] if none)
    easyconfig,     \* the easyconfig as written: the parameters the run starts from
    cfg,            \* self.cfg: the easyconfig parameters as the run updates them
    sys,            \* the host: architecture, loaded dependencies, build options
    environ,        \* os.environ: PATH, CFLAGS, CXXFLAGS, CUDA_NVCC_EXECUTABLE
    self,           \* the instance attributes set by __init__ and configure_step
    cwd,            \* current working directory (change_dir)
    made_dirs,      \* directories created with mkdir
    on_disk,        \* the executables on disk that which() can find
    calls,          \* configure/build subprocess invocations so far, in order
    stage_log,      \* one record per build_with_prev_stage call that ended
    test_idx,       \* index in self.test_targets of the next target to run
    test_out,       \* the output of the test target run last
    test_runs,      \* one record per test target invoked, in order
    install,        \* what install_step left in the install directory
    sanity,         \* what sanity_check_step handed to the verifier, and its verdict
    copied,         \* the directory trees post_install_step copied into the install directory
    module_txt      \* the directives make_module_extra added to the module file

vars == <<pc, err, easyconfig, cfg, sys, environ, self, cwd, made_dirs, on_disk, calls, stage_log,
          test_idx, test_out, test_runs, install, sanity, copied, module_txt>>

----------------------------------------------------------------------------
(* Python values *)

None == <<>>
Some(v) == <<v>>
IsNone(o) == Len(o) = 0
Val(o) == o[1]

Range(s) == {s[i] : i \in 1..Len(s)}
IsPrefix(s, t) == Len(s) <= Len(t) /\ SubSeq(t, 1, Len(s)) = s

UPPERCASE == <<"A","B","C","D","E","F","G","H","I","J","K","L","M",
               "N","O","P","Q","R","S","T","U","V","W","X","Y","Z">>
LOWERCASE == <<"a","b","c","d","e","f","g","h","i","j","k","l","m",
               "n","o","p","q","r","s","t","u","v","w","x","y","z">>

\* str.lower() on one character
lower_char(c) ==
    IF \E i \in 1..Len(UPPERCASE) : UPPERCASE[i] = c
    THEN LOWERCASE[CHOOSE i \in 1..Len(UPPERCASE) : UPPERCASE[i] = c]
    ELSE c

\* str.lower()
str_lower(s) == [i \in 1..Len(s) |-> lower_char(s[i])]

\* str.startswith(p)
str_startswith(s, p) == IsPrefix(p, s)

\* s[n:]
str_from(s, n) == SubSeq(s, n + 1, Len(s))

\* str.replace(a, b) for one-character a and b
str_replace_char(s, a, b) == [i \in 1..Len(s) |-> IF s[i] = a THEN b ELSE s[i]]

\* str.replace(a, '') for a one-character a
str_delete_char(s, a) == SelectSeq(s, LAMBDA c : c # a)

\* os.path.join(d, name) and os.path.dirname(p) on component sequences
path_join(d, name) == Append(d, name)
path_dirname(p) == SubSeq(p, 1, Len(p) - 1)

----------------------------------------------------------------------------
(* Module-level tables of llvmcomponent.py *)

CLANG_TARGETS == <<"all", "AArch64", "AMDGPU", "ARM", "CppBackend", "Hexagon", "Mips",
                   "MBlaze", "MSP430", "NVPTX", "PowerPC", "R600", "RISCV", "Sparc",
                   "SystemZ", "X86", "XCore">>

\* CPU architecture names of easybuild.tools.systemtools
AARCH32 == "AArch32"
AARCH64 == "AArch64"
POWER == "POWER"
RISCV64 == "RISC-V-64"
X86_64 == "x86_64"

DEFAULT_TARGETS_MAP ==
    [a \in {AARCH32, AARCH64, POWER, RISCV64, X86_64} |->
        CASE a = AARCH32 -> <<"ARM">>
          [] a = AARCH64 -> <<"AArch64">>
          [] a = POWER   -> <<"PowerPC">>
          [] a = RISCV64 -> <<"RISCV">>
          [] a = X86_64  -> <<"X86">>]

\* LooseVersion('18.1.6'), the oldest version __init__ accepts
MIN_VERSION == <<18, 1, 6>>

\* LooseVersion(a) < LooseVersion(b) on sequences of numeric components
RECURSIVE version_less(_, _)
version_less(a, b) ==
    IF Len(b) = 0 THEN FALSE
    ELSE IF Len(a) = 0 THEN TRUE
    ELSE IF a[1] # b[1] THEN a[1] < b[1]
    ELSE version_less(Tail(a), Tail(b))

\* project names, as the lower-cased easyconfig name minus a leading 'llvm'
S_llvm == <<"l","l","v","m">>
S_clang == <<"c","l","a","n","g">>
S_flang == <<"f","l","a","n","g">>
S_polly == <<"p","o","l","l","y">>
S_mlir == <<"m","l","i","r">>
S_runtimes == <<"r","u","n","t","i","m","e","s">>
S_lld == <<"l","l","d">>
S_lldb == <<"l","l","d","b">>
S_compiler_rt == <<"c","o","m","p","i","l","e","r","_","r","t">>

----------------------------------------------------------------------------
(* The host: dependency resolver, build options *)

\* dep['name'].lower() for the dependency names the code looks at
dep_name_lower(n) ==
    CASE n = "CUDA" -> "cuda"
      [] n = "ROCR-Runtime" -> "rocr-runtime"
      [] n = "LLVM" -> "llvm"
      [] n = "LLVMruntimes" -> "llvmruntimes"
      [] n = "GCCcore" -> "gcccore"
      [] n = "GCC" -> "gcc"
      [] OTHER -> n

\* get_software_root(name): the install root of a loaded dependency, or None
get_software_root(s, name) ==
    IF name \in s.deps THEN Some(<<"software", name>>) ELSE None

\* one "-D<name>=<value>" entry of cfg['configopts']; the value is a sequence of strings
opt(name, value) == [name |-> name, value |-> value]

no_error == [kind |-> "none", info |-> <<>>]
error(kind, info) == [kind |-> kind, info |-> info]

\* the statements of a handler run in order until one raises: f is applied to the
\* frame st (the part of the state the handler works on) unless st already raised
then(st, f(_)) == IF st.err.kind # "none" THEN st ELSE f(st)

raise(st, kind, info) == [st EXCEPT !.err = error(kind, info)]
update_configopts(st, name, value) ==
    [st EXCEPT !.cfg.configopts = Append(@, opt(name, value))]
setvar(st, key, value) == [st EXCEPT !.environ[key] = value]
mkdir(st, d) == [st EXCEPT !.made_dirs = @ \cup {d}]
change_dir(st, d) == [st EXCEPT !.cwd = d]

----------------------------------------------------------------------------
(* __init__ *)

\* a variant that refuses bootstrap for Clang itself and lets the other components through
bootstrap_refused_inverted(c) == c.bootstrap /\ str_lower(c.name) = S_clang
\* line 136: bootstrap is refused unless the easyconfig's name is Clang
bootstrap_refused(c) == c.bootstrap /\ str_lower(c.name) # S_clang

\* a variant that puts AMDGPU before NVPTX and ignores the CUDA toolchain
default_targets_amdgpu_first(arch, deps, cuda_toolchain) ==
    DEFAULT_TARGETS_MAP[arch]
        \o (IF "rocr-runtime" \in deps THEN <<"AMDGPU">> ELSE <<>>)
        \o (IF "cuda" \in deps THEN <<"NVPTX">> ELSE <<>>)
\* lines 146-160: the default targets for a host architecture in the table
default_targets(arch, deps, cuda_toolchain) ==
    DEFAULT_TARGETS_MAP[arch]
        \o (IF "cuda" \in deps \/ cuda_toolchain THEN <<"NVPTX">> ELSE <<>>)
        \o (IF "rocr-runtime" \in deps THEN <<"AMDGPU">> ELSE <<>>)

\* a variant that reports the whole list as soon as one name is unknown
unknown_targets_whole_list(build_targets) ==
    IF \E i \in 1..Len(build_targets) : build_targets[i] \notin Range(CLANG_TARGETS)
    THEN build_targets ELSE <<>>
\* line 170
unknown_targets(build_targets) ==
    SelectSeq(build_targets, LAMBDA t : t \notin Range(CLANG_TARGETS))

\* lines 179-182
project_name_of(name) ==
    LET n == str_lower(name)
    IN  IF str_startswith(n, S_llvm) THEN str_from(n, Len(S_llvm)) ELSE n

init_version(st) ==
    IF version_less(st.cfg.version, MIN_VERSION)
    THEN raise(st, "UnsupportedVersion", <<>>) ELSE st

init_attributes(st) ==
    [st EXCEPT !.self = [@ EXCEPT !.llvm_src_dir = None,
                                  !.llvm_obj_dir_stage1 = None,
                                  !.llvm_obj_dir_stage2 = None,
                                  !.llvm_obj_dir_stage3 = None,
                                  !.test_targets = <<>>,
                                  !.check_files = <<>>,
                                  !.check_dirs = <<>>,
                                  !.check_commands = <<>>,
                                  !.make_parallel_opts = <<>>]]

init_bootstrap(st) ==
    IF bootstrap_refused(st.cfg) THEN raise(st, "BootstrapOnlyClang", <<>>)
    ELSE update_configopts(st, "Python3_FIND_VIRTUALENV", <<"STANDARD">>)

\* a variant that carries on with an empty list on an architecture outside the table
init_build_targets_fallback(st) ==
    IF ~IsNone(st.cfg.build_targets) THEN st
    ELSE IF st.sys.arch \notin DOMAIN DEFAULT_TARGETS_MAP
         THEN [st EXCEPT !.cfg.build_targets = Some(<<>>)]
         ELSE [st EXCEPT !.cfg.build_targets =
                  Some(default_targets(st.sys.arch,
                                       {dep_name_lower(d) : d \in st.sys.deps},
                                       st.sys.cuda_toolchain))]
init_build_targets(st) ==
    IF ~IsNone(st.cfg.build_targets) THEN st
    ELSE IF st.sys.arch \notin DOMAIN DEFAULT_TARGETS_MAP
         THEN raise(st, "NoDefaultTargets", <<st.sys.arch>>)
         ELSE [st EXCEPT !.cfg.build_targets =
                  Some(default_targets(st.sys.arch,
                                       {dep_name_lower(d) : d \in st.sys.deps},
                                       st.sys.cuda_toolchain))]

\* a variant that lets MBlaze through like any other known backend
init_check_targets_no_legacy(st) ==
    LET unknown == unknown_targets(Val(st.cfg.build_targets))
    IN  IF unknown # <<>> THEN raise(st, "UnknownTargets", unknown) ELSE st
init_check_targets(st) ==
    LET build_targets == Val(st.cfg.build_targets)
        unknown == unknown_targets(build_targets)
    IN  IF unknown # <<>> THEN raise(st, "UnknownTargets", unknown)
        ELSE IF "MBlaze" \in Range(build_targets) THEN raise(st, "MBlazeUnsupported", <<>>)
        ELSE st

init_project(st) ==
    [st EXCEPT !.self.project_name = project_name_of(st.cfg.name),
               !.self.srcdir = path_join(st.sys.builddir, project_name_of(st.cfg.name))]

\* EB_LLVMcomponent.__init__ on a frame
init_frame(st) ==
    then(then(then(then(then(init_version(st), init_attributes), init_bootstrap),
                   init_build_targets), init_check_targets), init_project)

----------------------------------------------------------------------------
(* Project profiles: the _<project>_config methods *)

\* an expected file whose name holds no '.so', and one that ends in '.so'
file(name) == <<name>>
shlib(stem) == <<stem, ".so">>

add_check_files(st, files) == [st EXCEPT !.self.check_files = @ \o files]
add_check_dirs(st, dirs) == [st EXCEPT !.self.check_dirs = @ \o dirs]
add_check_commands(st, cmds) == [st EXCEPT !.self.check_commands = @ \o cmds]
set_test_targets(st, targets) == [st EXCEPT !.self.test_targets = targets]
warn(st, what) == [st EXCEPT !.self.warnings = Append(@, what)]

\* raise unless get_software_root(name) resolves
require_root(st, name, kind) ==
    IF IsNone(get_software_root(st.sys, name)) THEN raise(st, kind, <<name>>) ELSE st

\* a variant that leaves compiler-rt to be found missing by the build tool
clang_roots_lax(st) ==
    LET a == require_root(st, "LLVMruntimes", "MissingDependency")
        b(x) == require_root(x, "lld", "MissingDependency")
    IN  then(a, b)
clang_roots(st) ==
    LET a == require_root(st, "LLVMruntimes", "MissingDependency")
        b(x) == require_root(x, "lld", "MissingDependency")
        c(x) == require_root(x, "compiler-rt", "MissingDependency")
    IN  then(then(a, b), c)

clang_options(st) ==
    LET a == IF st.cfg.enable_rtti /\ str_lower(st.cfg.name) = S_clang
             THEN update_configopts(update_configopts(update_configopts(st,
                      "LLVM_REQUIRES_RTTI", <<"ON">>), "LLVM_ENABLE_RTTI", <<"ON">>),
                      "LLVM_ENABLE_EH", <<"ON">>)
             ELSE st
        b == IF ~IsNone(st.cfg.default_openmp_runtime)
             THEN update_configopts(a, "CLANG_DEFAULT_OPENMP_RUNTIME",
                                    st.cfg.default_openmp_runtime)
             ELSE a
    IN  update_configopts(update_configopts(update_configopts(update_configopts(b,
            "CLANG_DEFAULT_LINKER", <<"lld">>), "CLANG_DEFAULT_CXX_STDLIB", <<"libc++">>),
            "CLANG_DEFAULT_RTLIB", <<"compiler-rt">>), "LLVM_BUILD_UTILS", <<"ON">>)

\* a variant that treats llvm-gtest as a required dependency
clang_tests_strict(st) ==
    IF ~st.sys.has_gtest
    THEN raise(st, "MissingDependency", <<"llvm-gtest">>)
    ELSE set_test_targets(update_configopts(st, "LLVM_INCLUDE_TESTS", <<"ON">>),
                          <<"check-clang">>)
\* lines 240-245: the tests are enabled only when llvm-gtest is found
clang_tests(st) ==
    IF ~st.sys.has_gtest
    THEN update_configopts(warn(st, "llvm-gtest not found, disabling tests"),
                           "LLVM_INCLUDE_TESTS", <<"OFF">>)
    ELSE set_test_targets(update_configopts(st, "LLVM_INCLUDE_TESTS", <<"ON">>),
                          <<"check-clang">>)

\* lines 251-258
clang_gcc_prefix(st) ==
    LET first == get_software_root(st.sys, "GCCcore")
        gcc_prefix == IF IsNone(first) THEN get_software_root(st.sys, "GCC") ELSE first
    IN  IF IsNone(gcc_prefix) THEN raise(st, "MissingDependency", <<"GCC", "GCCcore">>)
        ELSE update_configopts(st, "GCC_INSTALL_PREFIX", Val(gcc_prefix))

CLANG_FILES ==
    << file("bin/clang"), file("bin/clang++"), file("bin/clang-cpp"), file("bin/clang-cl"),
       file("bin/clang-repl"), file("bin/hmaptool"), file("bin/amdgpu-arch"),
       file("bin/nvptx-arch"), file("bin/intercept-build"), file("bin/scan-build"),
       file("bin/scan-build-py"), file("bin/scan-view"), file("bin/analyze-build"),
       file("bin/c-index-test"), file("bin/clang-tblgen"),
       shlib("lib/libclang"), shlib("lib/libclang-cpp"), file("lib/libclangAST.a"),
       file("lib/libclangCrossTU.a"), file("lib/libclangFrontend.a"),
       file("lib/libclangInterpreter.a"), file("lib/libclangParse.a"),
       file("lib/libclangTooling.a") >>

CLANG_TOOLS_EXTRA_FILES ==
    << file("bin/clangd"), file("bin/clang-tidy"), file("bin/clang-pseudo"),
       file("bin/clang-include-fixer"), file("bin/clang-query"), file("bin/clang-move"),
       file("bin/clang-reorder-fields"), file("bin/clang-include-cleaner"),
       file("bin/clang-apply-replacements"), file("bin/clang-change-namespace"),
       file("bin/pp-trace"), file("bin/modularize"),
       file("lib/libclangTidy.a"), file("lib/libclangQuery.a"),
       file("lib/libclangIncludeFixer.a"), file("lib/libclangIncludeCleaner.a") >>

clang_expectations(st) ==
    LET a == add_check_files(st, CLANG_FILES)
        b == add_check_dirs(a, <<"lib/cmake/clang", "lib/libear", "lib/libscanbuild",
                                 "include/clang">>)
        c == add_check_commands(b, <<"echo 'int main(int argc, char **argv) { return 1; }' | clang -xc -fplugin=\"$EBROOTPOLLY/lib/LLVMPolly.so\" -O3 -mllvm -polly -">>)
        cte_dir == path_join(st.sys.builddir, "clang-tools-extra")
    IN  IF st.sys.has_cte_dir
        THEN add_check_files(
                 update_configopts(update_configopts(c,
                     "LLVM_TOOL_CLANG_TOOLS_EXTRA_BUILD", <<"ON">>),
                     "LLVM_EXTERNAL_CLANG_TOOLS_EXTRA_SOURCE_DIR", cte_dir),
                 CLANG_TOOLS_EXTRA_FILES)
        ELSE c

clang_config(st) ==
    then(then(then(then(clang_roots(st), clang_options), clang_tests),
              clang_gcc_prefix), clang_expectations)

flang_config(st) ==
    LET a == require_root(st, "lld", "MissingDependency")
        b(x) == require_root(x, "compiler-rt", "MissingDependency")
        c(x) == add_check_files(
                    update_configopts(update_configopts(x,
                        "FLANG_DEFAULT_LINKER", <<"lld">>),
                        "FLANG_DEFAULT_RTLIB", <<"compiler-rt">>),
                    << file("bin/bbc"), file("bin/flang-new"),
                       file("bin/flang-to-external-fc"), file("bin/f18-parse-demo"),
                       file("bin/fir-opt"), file("bin/tco"),
                       file("lib/libFortranRuntime.a"), file("lib/libFortranSNemantics.a"),
                       file("lib/libFortranLower.a"), file("lib/libFortranParser.a"),
                       file("lib/libFIRCodeGen.a"), file("lib/libflangFrontend.a"),
                       file("lib/libFortranCommon.a"), file("lib/libFortranDecimal.a"),
                       file("lib/libHLFIRDialect.a") >>)
    IN  then(then(a, b), c)

\* a variant that registers the expectations but no test target
polly_config_no_tests(st) ==
    LET b == add_check_files(st, << shlib("lib/LLVMPolly"), file("lib/libPolly.a"),
                                    file("lib/libPollyISL.a") >>)
    IN  add_check_dirs(b, <<"lib/cmake/polly", "include/polly">>)
polly_config(st) ==
    LET a == set_test_targets(st, <<"check-polly">>)
        b == add_check_files(a, << shlib("lib/LLVMPolly"), file("lib/libPolly.a"),
                                   file("lib/libPollyISL.a") >>)
        c == add_check_dirs(b, <<"lib/cmake/polly", "include/polly">>)
    IN  IF "NVPTX" \in Range(Val(st.cfg.build_targets))
        THEN update_configopts(c, "POLLY_ENABLE_GPGPU_CODEGEN", <<"ON">>)
        ELSE c

mlir_config(st) ==
    LET a == update_configopts(update_configopts(st, "LLVM_BUILD_UTILS", <<"ON">>),
                               "MLIR_INCLUDE_TESTS", <<"On">>)
        b == set_test_targets(a, <<"check-mlir">>)
        c == add_check_files(b, << file("bin/mlir-tblgen"), file("bin/tblgen-to-irdl"),
                                   file("bin/mlir-pdll"), file("lib/libMLIRIR.a"),
                                   shlib("lib/libmlir_async_runtime"),
                                   shlib("lib/libmlir_arm_runner_utils"),
                                   shlib("lib/libmlir_c_runner_utils"),
                                   shlib("lib/libmlir_float16_utils") >>)
        d == add_check_dirs(c, <<"lib/cmake/mlir", "include/mlir", "include/mlir-c">>)
    IN  IF st.cfg.python_bindings
        THEN update_configopts(d, "MLIR_ENABLE_BINDINGS_PYTHON", <<"ON">>)
        ELSE d

runtimes_config(st) ==
    LET a == set_test_targets(st, <<"check-runtimes", "check-unwind", "check-cxx",
                                    "check-cxxabi">>)
        b == update_configopts(update_configopts(update_configopts(a,
                 "LLVM_ENABLE_RUNTIMES", <<"libunwind", "libcxxabi", "libcxx">>),
                 "LIBCXX_INCLUDE_BENCHMARKS", <<"OFF">>),
                 "CXX_SUPPORTS_NOSTDLIBXX_FLAG", <<"OFF">>)
        c == require_root(b, "compiler-rt", "MissingDependency")
        d(x) == update_configopts(update_configopts(update_configopts(update_configopts(x,
                 "LIBCXX_CXX_ABI", <<"libcxxabi">>), "LIBCXX_USE_COMPILER_RT", <<"On">>),
                 "LIBCXXABI_USE_LLVM_UNWINDER", <<"On">>),
                 "LIBCXXABI_USE_COMPILER_RT", <<"On">>)
        e(x) == add_check_dirs(
                    add_check_files(x, << file("lib/libunwind.a"), file("lib/libc++.a"),
                                          file("lib/libc++abi.a"), shlib("lib/libunwind"),
                                          shlib("lib/libc++"), shlib("lib/libc++abi"),
                                          file("include/unwind.h"),
                                          file("include/libunwind.h"),
                                          file("include/mach-o/compact_unwind_encoding.h") >>),
                    <<"include/c++", "include/mach-o">>)
    IN  then(then(c, d), e)

lld_config(st) ==
    LET a == set_test_targets(update_configopts(st, "LLVM_INCLUDE_TESTS", <<"On">>),
                              <<"check-lld">>)
        b == add_check_files(a, << file("bin/lld"), file("bin/ld.lld"), file("bin/ld64.lld"),
                                   file("bin/wasm-ld"), file("bin/lld-link"),
                                   file("lib/liblldCOFF.a"), file("lib/liblldCommon.a"),
                                   file("lib/liblldELF.a"), file("lib/liblldMachO.a"),
                                   file("lib/liblldMinGW.a"), file("lib/liblldWasm.a") >>)
    IN  add_check_dirs(b, <<"lib/cmake/lld", "include/lld">>)

lldb_config(st) == add_check_files(st, << file("bin/lldb") >>)

COMPILER_RT_LIBS ==
    <<"libclang_rt.asan", "libclang_rt.hwasan", "libclang_rt.lsan", "libclang_rt.memprof",
      "libclang_rt.xray", "libclang_rt.scudo_standalone", "libclang_rt.stats",
      "libclang_rt.tsan", "libclang_rt.ubsan_minimal">>

compiler_rt_config(st) ==
    LET arch == st.sys.arch
        libs == [i \in 1..Len(COMPILER_RT_LIBS) |->
                    <<"lib/linux/", COMPILER_RT_LIBS[i], "-", arch, ".a">>]
        a == add_check_files(st, libs \o << file("bin/hwasan_symbolize") >>)
    IN  add_check_dirs(a, <<"include/sanitizer", "include/fuzzer", "include/orc",
                            "include/xray">>)

\* lines 507-509: getattr(self, '_%s_config' % project_name.replace('-', '_'), None)
project_config(st) ==
    LET method == str_replace_char(st.self.project_name, "-", "_")
    IN  CASE method = S_clang -> clang_config(st)
          [] method = S_flang -> flang_config(st)
          [] method = S_polly -> polly_config(st)
          [] method = S_mlir -> mlir_config(st)
          [] method = S_runtimes -> runtimes_config(st)
          [] method = S_lld -> lld_config(st)
          [] method = S_lldb -> lldb_config(st)
          [] method = S_compiler_rt -> compiler_rt_config(st)
          [] OTHER -> st

----------------------------------------------------------------------------
(* configure_step *)

\* code point order of the characters of a CUDA capability string
CAPABILITY_CHARS == <<".", "0", "1", "2", "3", "4", "5", "6", "7", "8", "9">>
char_code(c) == CHOOSE i \in 1..Len(CAPABILITY_CHARS) : CAPABILITY_CHARS[i] = c

\* a < b for Python strings
RECURSIVE str_less(_, _)
str_less(a, b) ==
    IF Len(b) = 0 THEN FALSE
    ELSE IF Len(a) = 0 THEN TRUE
    ELSE IF a[1] # b[1] THEN char_code(a[1]) < char_code(b[1])
    ELSE str_less(Tail(a), Tail(b))

\* min() of a non-empty list of strings: the first of the smallest
str_min(list) ==
    list[CHOOSE i \in 1..Len(list) :
            /\ \A j \in 1..Len(list) : ~str_less(list[j], list[i])
            /\ \A j \in 1..(i - 1) : str_less(list[i], list[j])]

\* sep.join(list) for a one-character sep
RECURSIVE str_join(_, _)
str_join(sep, list) ==
    IF Len(list) = 0 THEN <<>>
    ELSE IF Len(list) = 1 THEN list[1]
    ELSE list[1] \o <<sep>> \o str_join(sep, Tail(list))

\* lines 452-454
configure_llvm_root(st) == require_root(st, "LLVM", "MissingDependency")

\* lines 456-460: the packages whose CMake directory is passed on when they resolve,
\* with prevs.upper() + '_DIR' and prevs.lower()
PREVS ==
    << [name |-> "LLVM", d_dir |-> "LLVM_DIR", lower |-> "llvm"],
       [name |-> "lld", d_dir |-> "LLD_DIR", lower |-> "lld"],
       [name |-> "lldb", d_dir |-> "LLDB_DIR", lower |-> "lldb"],
       [name |-> "clang-tools-extra", d_dir |-> "CLANG-TOOLS-EXTRA_DIR",
        lower |-> "clang-tools-extra"],
       [name |-> "clang", d_dir |-> "CLANG_DIR", lower |-> "clang"],
       [name |-> "flang", d_dir |-> "FLANG_DIR", lower |-> "flang"],
       [name |-> "mlir", d_dir |-> "MLIR_DIR", lower |-> "mlir"] >>

RECURSIVE configure_prev_dirs(_, _)
configure_prev_dirs(st, prevs) ==
    IF Len(prevs) = 0 THEN st
    ELSE LET sft_root == get_software_root(st.sys, prevs[1].name)
             next == IF ~IsNone(sft_root)
                     THEN update_configopts(st, prevs[1].d_dir,
                              path_join(path_join(path_join(Val(sft_root), "lib"), "cmake"),
                                        prevs[1].lower))
                     ELSE st
         IN  configure_prev_dirs(next, Tail(prevs))

\* lines 462-472
configure_module_path(st) ==
    LET llvm_path == path_join(st.sys.builddir, "llvm")
        a == IF st.sys.has_llvm_dir
             THEN update_configopts(st, "CMAKE_MODULE_PATH",
                      <<path_join(path_join(llvm_path, "cmake"), "modules")>>
                          \o st.environ["CMAKE_MODULE_PATH"])
             ELSE st
    IN  update_configopts(a, "LLVM_LINK_LLVM_DYLIB", <<"ON">>)

\* lines 474-477
stage_dirs(builddir, bootstrap) ==
    [stage1 |-> Some(path_join(builddir, "llvm.obj.1")),
     stage2 |-> IF bootstrap THEN Some(path_join(builddir, "llvm.obj.2")) ELSE None,
     stage3 |-> IF bootstrap THEN Some(path_join(builddir, "llvm.obj.3")) ELSE None]

\* lines 474-503
configure_stage_dirs(st) ==
    LET d == stage_dirs(st.sys.builddir, st.cfg.bootstrap)
        a == [st EXCEPT !.self.llvm_obj_dir_stage1 = d.stage1,
                        !.self.llvm_obj_dir_stage2 = d.stage2,
                        !.self.llvm_obj_dir_stage3 = d.stage3]
    IN  change_dir(mkdir(a, Val(d.stage1)), Val(d.stage1))

\* lines 511-547
configure_common(st) ==
    LET llvm_root == Val(get_software_root(st.sys, "LLVM"))
        tool(name) == path_join(path_join(llvm_root, "bin"), name)
        a == update_configopts(st, "LLVM_ENABLE_ASSERTIONS",
                               IF st.cfg.assertions THEN <<"ON">> ELSE <<"OFF">>)
        b == IF ~IsNone(get_software_root(st.sys, "lld"))
             THEN update_configopts(a, "CMAKE_EXE_LINKER_FLAGS", <<"-fuse-ld=lld">>)
             ELSE a
        c == update_configopts(update_configopts(update_configopts(b,
                 "CMAKE_AR", tool("llvm-ar")), "CMAKE_NM", tool("llvm-nm")),
                 "CMAKE_RANLIB", tool("llvm-ranlib"))
        d == update_configopts(c, "LLVM_TARGETS_TO_BUILD", Val(st.cfg.build_targets))
        e == IF ~IsNone(st.cfg.parallel)
             THEN [d EXCEPT !.self.make_parallel_opts = <<"-j", Val(st.cfg.parallel)>>]
             ELSE d
        hwloc_root == get_software_root(st.sys, "hwloc")
    IN  IF ~IsNone(hwloc_root)
        THEN update_configopts(update_configopts(e, "LIBOMP_USE_HWLOC", <<"ON">>),
                               "LIBOMP_HWLOC_INSTALL_DIR", Val(hwloc_root))
        ELSE e

\* line 560: cfg['default_cuda_capability'] or min(cuda_cc)
default_cuda_cc(default_cuda_capability, cuda_cc) ==
    IF ~IsNone(default_cuda_capability) /\ Val(default_cuda_capability) # <<>>
    THEN Val(default_cuda_capability)
    ELSE str_min(cuda_cc)

\* lines 550-567
configure_nvptx(st) ==
    IF "NVPTX" \notin Range(Val(st.cfg.build_targets)) THEN st
    ELSE LET ec_cuda_cc == st.cfg.cuda_compute_capabilities
             cfg_cuda_cc == st.sys.cuda_compute_capabilities
             cuda_cc == IF cfg_cuda_cc # <<>> THEN cfg_cuda_cc ELSE ec_cuda_cc
         IN  IF cuda_cc = <<>> THEN raise(st, "MissingCudaCapabilities", <<>>)
             ELSE LET default_cc == default_cuda_cc(st.cfg.default_cuda_capability, cuda_cc)
                      a == IF IsNone(st.cfg.default_cuda_capability)
                              \/ Val(st.cfg.default_cuda_capability) = <<>>
                           THEN warn(st, "No default CUDA capability defined!")
                           ELSE st
                      stripped == [i \in 1..Len(cuda_cc) |-> str_delete_char(cuda_cc[i], ".")]
                  IN  update_configopts(update_configopts(a,
                          "CLANG_OPENMP_NVPTX_DEFAULT_ARCH",
                          <<"s", "m", "_">> \o str_delete_char(default_cc, ".")),
                          "LIBOMPTARGET_NVPTX_COMPUTE_CAPABILITIES",
                          str_join(",", stripped))

\* lines 571-572
configure_no_cuda(st) ==
    IF IsNone(get_software_root(st.sys, "CUDA"))
    THEN setvar(st, "CUDA_NVCC_EXECUTABLE", Some("IGNORE"))
    ELSE st

\* a variant that does not ask for amd_gfx_list
configure_amdgpu_any_gfx(st) ==
    IF "AMDGPU" \notin Range(Val(st.cfg.build_targets)) THEN st
    ELSE IF IsNone(get_software_root(st.sys, "ROCR-Runtime"))
         THEN raise(st, "MissingDependency", <<"ROCR-Runtime">>)
         ELSE update_configopts(st, "LIBOMPTARGET_AMDGCN_GFXLIST", st.cfg.amd_gfx_list)

\* lines 574-582
configure_amdgpu(st) ==
    IF "AMDGPU" \notin Range(Val(st.cfg.build_targets)) THEN st
    ELSE IF IsNone(get_software_root(st.sys, "ROCR-Runtime"))
         THEN raise(st, "MissingDependency", <<"ROCR-Runtime">>)
         ELSE IF st.cfg.amd_gfx_list = <<>>
              THEN raise(st, "MissingAmdGfxList", <<>>)
              ELSE update_configopts(st, "LIBOMPTARGET_AMDGCN_GFXLIST", st.cfg.amd_gfx_list)

\* a configure, build or install subprocess run in the current directory with the
\* compilers cc and cxx (None: those of the toolchain): a non-zero exit raises
run_tool(st, cmd, cc, cxx, ok) ==
    LET a == [st EXCEPT !.calls = Append(@, [cmd |-> cmd, dir |-> st.cwd,
                                             cc |-> cc, cxx |-> cxx, ok |-> ok])]
    IN  IF ok THEN a ELSE raise(a, "BuildToolError", <<cmd>>)

\* CMakeMake.configure_step(srcdir): CMake is run in the current directory
cmakemake_configure_step(st, ok) == run_tool(st, "configure", None, None, ok)

\* EB_LLVMcomponent.configure_step on a frame; ok: CMake exits with status zero
configure_frame(st, ok) ==
    LET prev_dirs(x) == configure_prev_dirs(x, PREVS)
        cmake(x) == cmakemake_configure_step(x, ok)
    IN  then(then(then(then(then(then(then(then(then(
            configure_llvm_root(st), prev_dirs), configure_module_path),
            configure_stage_dirs), project_config), configure_common),
            configure_nvptx), configure_no_cuda), configure_amdgpu), cmake)

----------------------------------------------------------------------------
(* build_step and build_with_prev_stage *)

\* which(cmd): the first directory of $PATH that holds cmd, joined with cmd, or None
RECURSIVE which_in(_, _, _)
which_in(path, fs, cmd) ==
    IF Len(path) = 0 THEN None
    ELSE IF path_join(path[1], cmd) \in fs THEN Some(path_join(path[1], cmd))
    ELSE which_in(Tail(path), fs, cmd)

which(st, cmd) == which_in(st.environ["PATH"], st.on_disk, cmd)

\* a successful build of Clang leaves the compiler drivers in <obj>/bin
built_files(obj) ==
    {path_join(path_join(obj, "bin"), f) : f \in {"clang", "clang++"}}

\* Clang(...).prepare_rpath_wrappers(): every compiler command found in $PATH gets a
\* wrapper script in a directory of its own, which is put first in $PATH
rpath_wrapper_dir(cmd) == <<"tmp", "rpath_wrappers", cmd>>

RECURSIVE prepare_rpath_wrappers(_, _)
prepare_rpath_wrappers(st, cmds) ==
    IF Len(cmds) = 0 THEN st
    ELSE LET wrapper_dir == rpath_wrapper_dir(cmds[1])
             wrapped == IF IsNone(which(st, cmds[1])) THEN st
                        ELSE setvar([st EXCEPT !.on_disk = @ \cup {path_join(wrapper_dir, cmds[1])}],
                                    "PATH", <<wrapper_dir>> \o st.environ["PATH"])
         IN  prepare_rpath_wrappers(wrapped, Tail(cmds))

WARNING_FLAG == "-Wno-unused-command-line-argument"

\* "%s %s" % (os.getenv(key), WARNING_FLAG): an unset variable is formatted as 'None'
flags_with_warning_off(value) ==
    Some((IF IsNone(value) THEN <<"None">> ELSE Val(value)) \o <<WARNING_FLAG>>)

\* lines 636-656
stage_rpath(st, prev_obj_path) ==
    LET a == prepare_rpath_wrappers(st, <<"clang", "clang++">>)
        clang == which(a, "clang")
    IN  IF IsNone(clang) THEN raise(a, "TypeError", <<"os.path.dirname(None)">>)
        ELSE LET clang_wrapper_dir == path_dirname(Val(clang))
                 b == [a EXCEPT !.on_disk = @ \cup {path_join(clang_wrapper_dir, "opt")}]
                 c == setvar(b, "CFLAGS", flags_with_warning_off(a.environ["CFLAGS"]))
             IN  setvar(c, "CXXFLAGS", flags_with_warning_off(a.environ["CXXFLAGS"]))

\* lines 680-683: the source directory handed to cmake; os.path.join raises
\* TypeError on None
stage_source_dir(llvm_src_dir) ==
    IF IsNone(llvm_src_dir) THEN None ELSE Some(path_join(Val(llvm_src_dir), "llvm"))

\* lines 659-683
stage_configure(st, cmake_ok) ==
    LET clang == which(st, "clang")
        clangxx == which(st, "clang++")
    IN  IF IsNone(stage_source_dir(st.self.llvm_src_dir))
        THEN raise(st, "TypeError", <<"os.path.join(None, 'llvm')">>)
        ELSE run_tool(st, "configure", clang, clangxx, cmake_ok)

\* lines 685-686
stage_build(st, make_ok) ==
    LET a == run_tool(st, "build", None, None, make_ok)
    IN  IF make_ok THEN [a EXCEPT !.on_disk = @ \cup built_files(st.cwd)] ELSE a

\* line 689, reached only when nothing before it raised
stage_restore(st, orig_path) == setvar(st, "PATH", orig_path)

\* build_with_prev_stage(prev_obj, next_obj) on a frame
build_with_prev_stage(st, prev_obj, next_obj, cmake_ok, make_ok) ==
    LET orig_path == st.environ["PATH"]
        prev_obj_path == path_join(prev_obj, "bin")
        a == setvar(change_dir(mkdir(st, next_obj), next_obj),
                    "PATH", <<prev_obj_path>> \o orig_path)
        b == IF st.sys.rpath THEN stage_rpath(a, prev_obj_path) ELSE a
        configure(x) == stage_configure(x, cmake_ok)
        build(x) == stage_build(x, make_ok)
        restore(x) == stage_restore(x, orig_path)
        e == then(then(then(b, configure), build), restore)
    IN  [e EXCEPT !.stage_log = Append(@,
            [prev_obj |-> prev_obj, next_obj |-> next_obj,
             environ_before |-> st.environ, environ_after |-> e.environ,
             raised |-> e.err.kind # "none"])]

\* CMakeMake.build_step(): make is run in the current directory
cmakemake_build_step(st, ok) ==
    LET a == run_tool(st, "build", None, None, ok)
    IN  IF ok /\ st.self.project_name = S_clang
        THEN [a EXCEPT !.on_disk = @ \cup built_files(st.cwd)] ELSE a

\* a variant that runs the stage-1 build a second time after it failed
build_frame_retry(st, ok) ==
    LET stage1(x) == cmakemake_build_step(x, ok[1])
        first == then(change_dir(st, Val(st.self.llvm_obj_dir_stage1)), stage1)
        s1 == IF first.err.kind = "BuildToolError"
              THEN stage1([first EXCEPT !.err = no_error]) ELSE first
        stage2(x) == build_with_prev_stage(x, Val(x.self.llvm_obj_dir_stage1),
                                           Val(x.self.llvm_obj_dir_stage2), ok[2], ok[3])
        stage3(x) == build_with_prev_stage(x, Val(x.self.llvm_obj_dir_stage2),
                                           Val(x.self.llvm_obj_dir_stage3), ok[4], ok[5])
    IN  IF st.cfg.bootstrap THEN then(then(s1, stage2), stage3) ELSE s1
\* build_step on a frame; ok[i]: the i-th subprocess of a full run exits with status zero
build_frame(st, ok) ==
    LET stage1(x) == cmakemake_build_step(x, ok[1])
        s1 == then(change_dir(st, Val(st.self.llvm_obj_dir_stage1)), stage1)
        stage2(x) == build_with_prev_stage(x, Val(x.self.llvm_obj_dir_stage1),
                                           Val(x.self.llvm_obj_dir_stage2), ok[2], ok[3])
        stage3(x) == build_with_prev_stage(x, Val(x.self.llvm_obj_dir_stage2),
                                           Val(x.self.llvm_obj_dir_stage3), ok[4], ok[5])
    IN  IF st.cfg.bootstrap THEN then(then(s1, stage2), stage3) ELSE s1

----------------------------------------------------------------------------
(* test_step: the interpretation of a test target's output *)

S_Failed == <<"F","a","i","l","e","d">>
S_Passed == <<"P","a","s","s","e","d">>
DIGITS == <<"0", "1", "2", "3", "4", "5", "6", "7", "8", "9">>

digit_value(c) == (CHOOSE i \in 1..Len(DIGITS) : DIGITS[i] = c) - 1

\* int(s) for a non-empty string of digits
RECURSIVE int_of(_)
int_of(s) ==
    IF Len(s) = 0 THEN 0
    ELSE int_of(SubSeq(s, 1, Len(s) - 1)) * Len(DIGITS) + digit_value(s[Len(s)])

\* the first position >= i of line that holds no character of class
\* (Len(line) + 1 if none)
RECURSIVE skip_while(_, _, _)
skip_while(line, i, class) ==
    IF i <= Len(line) /\ line[i] \in class THEN skip_while(line, i + 1, class) ELSE i

is_space == {" "}

\* a variant for the pattern r'^ *<word> +: +([0-9]+)'
match_summary_optional_lead(line, word) ==
    LET p1 == skip_while(line, 1, is_space)
        p2 == p1 + Len(word)
        p3 == skip_while(line, p2, is_space)
        p4 == p3 + 1
        p5 == skip_while(line, p4, is_space)
        p6 == skip_while(line, p5, Range(DIGITS))
    IN  IF /\ p2 - 1 <= Len(line)
           /\ SubSeq(line, p1, p2 - 1) = word
           /\ p3 > p2
           /\ p3 <= Len(line)
           /\ line[p3] = ":"
           /\ p5 > p4
           /\ p6 > p5
        THEN Some(SubSeq(line, p5, p6 - 1))
        ELSE None
\* the match of r'^ +<word> +: +([0-9]+)' at the start of a line: Some(group 1) or None
match_summary(line, word) ==
    LET p1 == skip_while(line, 1, is_space)
        p2 == p1 + Len(word)
        p3 == skip_while(line, p2, is_space)
        p4 == p3 + 1
        p5 == skip_while(line, p4, is_space)
        p6 == skip_while(line, p5, Range(DIGITS))
    IN  IF /\ p1 > 1
           /\ p2 - 1 <= Len(line)
           /\ SubSeq(line, p1, p2 - 1) = word
           /\ p3 > p2
           /\ p3 <= Len(line)
           /\ line[p3] = ":"
           /\ p5 > p4
           /\ p6 > p5
        THEN Some(SubSeq(line, p5, p6 - 1))
        ELSE None

\* re.compile(..., flags=re.MULTILINE).search(out): the match in the first line that has one
RECURSIVE search_summary(_, _)
search_summary(out, word) ==
    IF Len(out) = 0 THEN None
    ELSE IF ~IsNone(match_summary(out[1], word)) THEN match_summary(out[1], word)
    ELSE search_summary(Tail(out), word)

\* a variant in which a Passed line takes precedence over a Failed line
num_failed_of_passed_first(out) ==
    LET mch == search_summary(out, S_Failed)
    IN  IF ~IsNone(search_summary(out, S_Passed)) THEN Some(0)
        ELSE IF IsNone(mch) THEN None ELSE Some(int_of(Val(mch)))
\* lines 717-726: Some(num_failed), or None when the output cannot be interpreted
num_failed_of(out) ==
    LET mch == search_summary(out, S_Failed)
    IN  IF IsNone(mch)
        THEN IF IsNone(search_summary(out, S_Passed)) THEN None ELSE Some(0)
        ELSE Some(int_of(Val(mch)))

\* a variant that never compares the count with the threshold
too_many_failed_never(num_failed, test_suite_max_failed) == FALSE
\* a variant that already fails when the count equals the threshold
too_many_failed_at_threshold(num_failed, test_suite_max_failed) ==
    num_failed >= test_suite_max_failed
\* line 727
too_many_failed(num_failed, test_suite_max_failed) == num_failed > test_suite_max_failed

\* a variant in which a run without bootstrap goes on in a second-stage directory
final_stage_dir_second(st) ==
    IF st.cfg.bootstrap THEN st.self.llvm_obj_dir_stage3
    ELSE Some(path_join(st.sys.builddir, "llvm.obj.2"))

\* lines 708-711 and 733-736: the directory of the final stage
final_stage_dir(st) ==
    IF st.cfg.bootstrap THEN st.self.llvm_obj_dir_stage3 ELSE st.self.llvm_obj_dir_stage1

----------------------------------------------------------------------------
(* sanity_check_step *)

\* '.%s' % shlib_ext
dot_ext(shlib_ext) == CASE shlib_ext = "so" -> ".so"
                        [] shlib_ext = "dylib" -> ".dylib"
                        [] shlib_ext = "dll" -> ".dll"

\* f.endswith('.so') and f.replace('.so', new) on the pieces of a file name
ends_with_so(f) == Len(f) > 0 /\ f[Len(f)] = ".so"
replace_so(f, new) == [i \in 1..Len(f) |-> IF f[i] = ".so" THEN new ELSE f[i]]

\* lines 788-791: the files handed to the verifier
sanity_files(all_files, shlib_ext) ==
    IF shlib_ext # "so"
    THEN LET kept == SelectSeq(all_files, ends_with_so)
         IN  [i \in 1..Len(kept) |-> replace_so(kept[i], dot_ext(shlib_ext))]
    ELSE all_files

\* lines 784-791: custom_paths and custom_commands as handed to the verifier
sanity_submission(st) ==
    LET custom_paths == st.cfg.sanity_check_paths
    IN  [files |-> sanity_files(custom_paths.files \o st.self.check_files, st.sys.shlib_ext),
         dirs |-> custom_paths.dirs \o st.self.check_dirs,
         commands |-> st.self.check_commands]

\* EasyBlock.sanity_check_step(custom_paths, custom_commands): what of the submission
\* the install directory fails to provide
sanity_failures(submitted, installed) ==
    [files |-> SelectSeq(submitted.files, LAMBDA f : f \notin installed.files),
     dirs |-> SelectSeq(submitted.dirs, LAMBDA d : d \notin installed.dirs),
     commands |-> SelectSeq(submitted.commands, LAMBDA c : c \notin installed.commands)]

----------------------------------------------------------------------------
(* The build's install tree *)

\* the name under which the platform's build installs an expected file
installed_name(f, shlib_ext) ==
    IF ends_with_so(f) THEN [f EXCEPT ![Len(f)] = dot_ext(shlib_ext)] ELSE f

\* everything the easyblock's profile and the easyconfig expect of a complete install
complete_install(st) ==
    [files |-> {installed_name(f, st.sys.shlib_ext) :
                   f \in Range(st.cfg.sanity_check_paths.files \o st.self.check_files)},
     dirs |-> Range(st.cfg.sanity_check_paths.dirs \o st.self.check_dirs),
     commands |-> Range(st.self.check_commands)]

\* a complete install, or one that lacks one file, one directory or one working command
possible_installs(st) ==
    LET full == complete_install(st)
    IN  {full}
        \cup {[full EXCEPT !.files = @ \ {f}] : f \in full.files}
        \cup {[full EXCEPT !.dirs = @ \ {d}] : d \in full.dirs}
        \cup {[full EXCEPT !.commands = @ \ {c}] : c \in full.commands}

----------------------------------------------------------------------------
(* Inputs: easyconfigs, hosts and subprocess results *)

\* longest test output, in lines
MaxLines == 2
\* largest test_suite_max_failed
MaxAllowedFailed == 1
\* longest explicit build_targets list
MaxTargets == 3

N_Clang == <<"C","l","a","n","g">>
N_Flang == <<"F","l","a","n","g">>
N_Polly == <<"P","o","l","l","y">>
N_MLIR == <<"M","L","I","R">>
N_LLVMruntimes == <<"L","L","V","M","r","u","n","t","i","m","e","s">>
N_LLDB == <<"L","L","D","B">>
N_compiler_rt == <<"c","o","m","p","i","l","e","r","-","r","t">>
N_BOLT == <<"B","O","L","T">>

NAMES == {N_Clang, S_clang, N_Flang, N_Polly, N_MLIR, N_LLVMruntimes, S_lld, N_LLDB,
          N_compiler_rt, N_BOLT}

VERSIONS == {<<17, 0, 6>>, <<18, 1, 6>>, <<19, 1, 0>>}

ARCHS == {AARCH32, AARCH64, POWER, RISCV64, X86_64, "Unknown"}

CC_7_5 == <<"7", ".", "5">>
CC_10_0 == <<"1", "0", ".", "0">>

BUILD_DEPS == {"LLVM", "LLVMruntimes", "lld", "compiler-rt", "GCCcore"}

\* extra_options(): the default of test_suite_max_failed
DEFAULT_MAX_FAILED == 0

BASE_CFG ==
    [name |-> N_Clang, version |-> <<18, 1, 8>>, bootstrap |-> FALSE,
     build_targets |-> None, assertions |-> TRUE, enable_rtti |-> FALSE,
     default_openmp_runtime |-> None, python_bindings |-> FALSE,
     skip_all_tests |-> TRUE, test_suite_max_failed |-> DEFAULT_MAX_FAILED,
     amd_gfx_list |-> None, default_cuda_capability |-> None,
     cuda_compute_capabilities |-> None,
     sanity_check_paths |-> [files |-> <<>>, dirs |-> <<>>],
     configopts |-> <<>>, parallel |-> Some("4")]

BASE_SYS ==
    [arch |-> X86_64, deps |-> BUILD_DEPS, cuda_toolchain |-> FALSE, rpath |-> FALSE,
     shlib_ext |-> "so", has_gtest |-> TRUE, has_cte_dir |-> FALSE, has_llvm_dir |-> FALSE,
     cuda_compute_capabilities |-> <<>>, builddir |-> <<"build">>]

\* runs that differ in the project, in bootstrapping, in the wrapped-compiler mode
\* and in the version
BUILD_RUNS ==
    {[cfg |-> [BASE_CFG EXCEPT !.name = n, !.bootstrap = b, !.version = v],
      sys |-> [BASE_SYS EXCEPT !.rpath = r]] :
        n \in NAMES, b \in BOOLEAN, r \in BOOLEAN, v \in VERSIONS}

\* runs that differ in what target selection reads
TARGET_RUNS ==
    {[cfg |-> [BASE_CFG EXCEPT !.name = n, !.build_targets = t,
                               !.cuda_compute_capabilities = cc, !.amd_gfx_list = gfx],
      sys |-> [BASE_SYS EXCEPT !.arch = a, !.deps = BUILD_DEPS \cup d,
                               !.cuda_toolchain = tc]] :
        n \in {N_Clang, N_Polly}, t \in {None, Some(<<"X86">>)},
        cc \in {None, <<CC_7_5, CC_10_0>>}, gfx \in {None, <<"gfx90a">>},
        a \in ARCHS, d \in SUBSET {"CUDA", "ROCR-Runtime"}, tc \in BOOLEAN}

\* runs that differ in what test_step reads
TEST_RUNS ==
    {[cfg |-> [BASE_CFG EXCEPT !.name = n, !.skip_all_tests = s,
                               !.test_suite_max_failed = m],
      sys |-> [BASE_SYS EXCEPT !.has_gtest = (g \/ n # N_Clang)]] :
        n \in NAMES, s \in BOOLEAN, m \in 0..MaxAllowedFailed, g \in BOOLEAN}
    \cup {[cfg |-> [BASE_CFG EXCEPT !.bootstrap = TRUE, !.skip_all_tests = FALSE],
           sys |-> BASE_SYS]}

\* runs that differ in what sanity_check_step reads
SANITY_RUNS ==
    {[cfg |-> [BASE_CFG EXCEPT !.name = n, !.sanity_check_paths = p],
      sys |-> [BASE_SYS EXCEPT !.shlib_ext = e, !.has_cte_dir = x]] :
        n \in NAMES, e \in {"so", "dylib"}, x \in BOOLEAN,
        p \in {[files |-> <<>>, dirs |-> <<>>],
               [files |-> <<file("bin/llvm-config"), <<"lib/libLTO", ".so", ".18">>>>,
                dirs |-> <<"include/llvm">>]}}

\* names an easyconfig may list in build_targets: backends of CLANG_TARGETS, the
\* legacy MBlaze, and names CLANG_TARGETS does not hold
TARGET_NAMES == {"X86", "ARM", "MBlaze", "Bogus", "x86"}

\* runs with an explicit build_targets list
EXPLICIT_RUNS ==
    {[cfg |-> [BASE_CFG EXCEPT !.name = N_Polly, !.build_targets = Some(t),
                               !.version = v],
      sys |-> BASE_SYS] :
        t \in UNION {[1..k -> TARGET_NAMES] : k \in 0..MaxTargets}, v \in VERSIONS}

\* runs in which one of the dependencies is not loaded, or GCC stands in for GCCcore
DEP_RUNS ==
    {[cfg |-> [BASE_CFG EXCEPT !.name = n],
      sys |-> [BASE_SYS EXCEPT !.deps = d]] :
        n \in NAMES,
        d \in {BUILD_DEPS \ {x} : x \in BUILD_DEPS}
                \cup {(BUILD_DEPS \ {"GCCcore"}) \cup {"GCC"}}}

\* runs with GPU backends listed in build_targets, which differ in the GPU settings
GPU_RUNS ==
    {[cfg |-> [BASE_CFG EXCEPT !.name = N_Polly, !.build_targets = Some(t),
                               !.cuda_compute_capabilities = cc, !.amd_gfx_list = gfx],
      sys |-> [BASE_SYS EXCEPT !.deps = BUILD_DEPS \cup d,
                               !.cuda_compute_capabilities = bo]] :
        t \in {<<"X86", "NVPTX">>, <<"AMDGPU">>, <<"X86", "NVPTX", "AMDGPU">>},
        cc \in {None, <<CC_7_5>>}, bo \in {<<>>, <<CC_10_0>>},
        gfx \in {None, <<"gfx90a">>}, d \in SUBSET {"CUDA", "ROCR-Runtime"}}

\* runs that differ in the python_bindings parameter
BINDINGS_RUNS ==
    {[cfg |-> [BASE_CFG EXCEPT !.name = n, !.python_bindings = p],
      sys |-> BASE_SYS] :
        n \in NAMES, p \in BOOLEAN}

RUNS == BUILD_RUNS \cup TARGET_RUNS \cup TEST_RUNS \cup SANITY_RUNS
            \cup EXPLICIT_RUNS \cup DEP_RUNS \cup BINDINGS_RUNS
            \cup GPU_RUNS

spaces(n) == [i \in 1..n |-> " "]
summary_line(lead, word, count) ==
    spaces(lead) \o word \o spaces(Len(S_llvm) - 1) \o <<":", " ">> \o count

COUNTS == {<<"0">>, <<"1">>, <<"3">>, <<"1", "0">>}
NOISE_LINE == <<"T","e","s","t","i","n","g"," ","T","i","m","e",":"," ","9">>

\* the lines a test target's output is made of
LINES ==
    {summary_line(Len(S_lld), word, count) :
        word \in {S_Failed, S_Passed}, count \in COUNTS}
    \cup {summary_line(0, word, <<"3">>) : word \in {S_Failed, S_Passed}}
    \cup {summary_line(1, S_Failed, <<"1">>)}
    \cup {NOISE_LINE}

OUTPUTS == UNION {[1..k -> LINES] : k \in 0..MaxLines}

----------------------------------------------------------------------------
(* The run of one easyblock *)

blank_self ==
    [llvm_src_dir |-> None, llvm_obj_dir_stage1 |-> None, llvm_obj_dir_stage2 |-> None,
     llvm_obj_dir_stage3 |-> None, test_targets |-> <<>>, check_files |-> <<>>,
     check_dirs |-> <<>>, check_commands |-> <<>>, make_parallel_opts |-> <<>>,
     project_name |-> <<>>, srcdir |-> <<>>, warnings |-> <<>>]

no_install == [files |-> {}, dirs |-> {}, commands |-> {}, from_dir |-> None,
               symlinks |-> {}]
no_sanity == [ran |-> FALSE, files |-> <<>>, dirs |-> <<>>, commands |-> <<>>,
              passed |-> FALSE]

Init ==
    /\ \E run \in RUNS : easyconfig = run.cfg /\ cfg = run.cfg /\ sys = run.sys
    /\ pc = "new"
    /\ err = no_error
    /\ environ = [PATH |-> << <<"software", "LLVM", "bin">>, <<"usr", "bin">> >>,
                  CFLAGS |-> Some(<<"-O2">>), CXXFLAGS |-> Some(<<"-O2">>),
                  CUDA_NVCC_EXECUTABLE |-> None, CMAKE_MODULE_PATH |-> <<>>]
    /\ self = blank_self
    /\ cwd = <<"build">>
    /\ made_dirs = {}
    /\ on_disk = {<<"software", "LLVM", "bin", "llvm-link">>}
    /\ calls = <<>>
    /\ stage_log = <<>>
    /\ test_idx = 0
    /\ test_out = <<>>
    /\ test_runs = <<>>
    /\ install = no_install
    /\ sanity = no_sanity
    /\ copied = {}
    /\ module_txt = <<>>

\* the part of the state a handler works on
Frame ==
    [err |-> err, cfg |-> cfg, sys |-> sys, environ |-> environ, self |-> self,
     cwd |-> cwd, made_dirs |-> made_dirs, on_disk |-> on_disk, calls |-> calls,
     stage_log |-> stage_log]

\* the handler returned (the run goes on with step next) or raised (the run ends)
Commit(st, next) ==
    /\ err' = st.err
    /\ cfg' = st.cfg
    /\ environ' = st.environ
    /\ self' = st.self
    /\ cwd' = st.cwd
    /\ made_dirs' = st.made_dirs
    /\ on_disk' = st.on_disk
    /\ calls' = st.calls
    /\ stage_log' = st.stage_log
    /\ pc' = IF st.err.kind = "none" THEN next ELSE "failed"
    /\ UNCHANGED <<easyconfig, sys>>

EB_init ==
    /\ pc = "new"
    /\ Commit(init_frame(Frame), "configure")
    /\ UNCHANGED <<test_idx, test_out, test_runs, install, sanity, copied, module_txt>>

configure_step ==
    /\ pc = "configure"
    /\ \E ok \in BOOLEAN : Commit(configure_frame(Frame, ok), "build")
    /\ UNCHANGED <<test_idx, test_out, test_runs, install, sanity, copied, module_txt>>

build_step ==
    /\ pc = "build"
    /\ \E ok \in [1..5 -> BOOLEAN] : Commit(build_frame(Frame, ok), "test")
    /\ UNCHANGED <<test_idx, test_out, test_runs, install, sanity, copied, module_txt>>

\* test_step up to the loop over the test targets
test_step ==
    /\ pc = "test"
    /\ IF cfg.skip_all_tests
       THEN pc' = "install" /\ UNCHANGED <<cwd, test_idx>>
       ELSE /\ cwd' = Val(final_stage_dir(Frame))
            /\ test_idx' = 1
            /\ pc' = IF Len(self.test_targets) = 0 THEN "install" ELSE "testing"
    /\ UNCHANGED <<err, easyconfig, cfg, sys, environ, self, made_dirs, on_disk, calls, stage_log,
                   test_out, test_runs, install, sanity, copied, module_txt>>

\* the body of the loop of test_step: a target is run and its output interpreted
test_step_target ==
    /\ pc = "testing"
    /\ \E out \in OUTPUTS :
        LET num_failed == num_failed_of(out)
        IN  /\ test_out' = out
            /\ test_runs' = Append(test_runs, [target |-> self.test_targets[test_idx],
                                               num_failed |-> num_failed])
            /\ IF IsNone(num_failed)
               THEN /\ err' = error("UnparsableTestOutput", <<>>)
                    /\ pc' = "failed"
               ELSE IF too_many_failed(Val(num_failed), cfg.test_suite_max_failed)
               THEN /\ err' = error("TooManyFailedTests", num_failed)
                    /\ pc' = "failed"
               ELSE /\ pc' = "tested"
                    /\ UNCHANGED err
    /\ UNCHANGED <<easyconfig, cfg, sys, environ, self, cwd, made_dirs, on_disk, calls, stage_log,
                   test_idx, install, sanity, copied, module_txt>>

\* the head of the loop of test_step: on to the next target, or test_step returns
test_step_next ==
    /\ pc = "tested"
    /\ test_idx' = test_idx + 1
    /\ test_out' = <<>>
    /\ pc' = IF test_idx < Len(self.test_targets) THEN "testing" ELSE "install"
    /\ UNCHANGED <<err, easyconfig, cfg, sys, environ, self, cwd, made_dirs, on_disk, calls, stage_log,
                   test_runs, install, sanity, copied, module_txt>>

\* CMakeMake.install_step(): 'make install' is run in the current directory
cmakemake_install_step(st, ok) == run_tool(st, "install", None, None, ok)

install_step ==
    /\ pc = "install"
    /\ \E ok \in BOOLEAN, tree \in possible_installs(Frame) :
        LET a == change_dir(Frame, Val(final_stage_dir(Frame)))
            b == cmakemake_install_step(a, ok)
            compiler_rt_root == get_software_root(sys, "compiler-rt")
            c == IF self.project_name = S_clang /\ IsNone(compiler_rt_root)
                 THEN raise(b, "TypeError", <<"os.path.join(None, 'lib')">>)
                 ELSE b
        IN  /\ Commit(IF ok THEN c ELSE b, "postinstall")
            /\ install' =
                 IF ~ok THEN install
                 ELSE [files |-> tree.files, dirs |-> tree.dirs,
                       commands |-> tree.commands,
                       from_dir |-> final_stage_dir(Frame),
                       symlinks |-> IF self.project_name = S_clang
                                       /\ ~IsNone(compiler_rt_root)
                                    THEN {path_join(Val(compiler_rt_root), "lib")}
                                    ELSE {}]
    /\ UNCHANGED <<test_idx, test_out, test_runs, sanity, copied, module_txt>>

\* lines 752-756: the trees post_install_step copies with shutil.copytree
python_bindings_copies(st) ==
    IF st.cfg.python_bindings /\ st.self.project_name \in {S_clang, S_mlir}
    THEN {[source |-> path_join(path_join(st.self.srcdir, "bindings"), "python"),
           target |-> <<"lib", "python">>]}
    ELSE {}

post_install_step ==
    /\ pc = "postinstall"
    /\ copied' = copied \cup python_bindings_copies(Frame)
    /\ pc' = "sanity"
    /\ UNCHANGED <<err, easyconfig, cfg, sys, environ, self, cwd, made_dirs, on_disk, calls,
                   stage_log, test_idx, test_out, test_runs, install, sanity, module_txt>>

sanity_check_step ==
    /\ pc = "sanity"
    /\ LET submitted == sanity_submission(Frame)
           failures == sanity_failures(submitted, install)
           passed == failures.files = <<>> /\ failures.dirs = <<>>
                        /\ failures.commands = <<>>
       IN  /\ sanity' = [ran |-> TRUE, files |-> submitted.files, dirs |-> submitted.dirs,
                         commands |-> submitted.commands, passed |-> passed]
           /\ err' = IF passed THEN err
                     ELSE error("SanityCheckFailed",
                                failures.files \o failures.dirs \o failures.commands)
           /\ pc' = IF passed THEN "module" ELSE "failed"
    /\ UNCHANGED <<easyconfig, cfg, sys, environ, self, cwd, made_dirs, on_disk, calls,
                   stage_log, test_idx, test_out, test_runs, install, copied, module_txt>>

\* module_generator.set_environment(name, value) and prepend_paths(name, path)
set_environment(name, value) == [directive |-> "setenv", name |-> name, value |-> value]
prepend_paths(name, path) == [directive |-> "prepend-path", name |-> name, value |-> Some(path)]

\* lines 903-907: the directives make_module_extra adds
module_extra(st) ==
    IF st.self.project_name = S_clang
    THEN <<set_environment("ASAN_SYMBOLIZER_PATH", which(st, "llvm-symbolizer"))>>
            \o (IF st.cfg.python_bindings
                THEN <<prepend_paths("PYTHONPATH", <<"lib", "python">>)>>
                ELSE <<>>)
    ELSE <<>>

make_module_extra ==
    /\ pc = "module"
    /\ module_txt' = module_txt \o module_extra(Frame)
    /\ pc' = "done"
    /\ UNCHANGED <<err, easyconfig, cfg, sys, environ, self, cwd, made_dirs, on_disk, calls,
                   stage_log, test_idx, test_out, test_runs, install, sanity, copied>>

Next ==
    \/ EB_init
    \/ configure_step
    \/ build_step
    \/ test_step
    \/ test_step_target
    \/ test_step_next
    \/ install_step
    \/ post_install_step
    \/ sanity_check_step
    \/ make_module_extra

Spec == Init /\ [][Next]_vars

----------------------------------------------------------------------------
(* Properties *)

\* the stage directories of a run
obj_dir(k) == CASE k = 1 -> path_join(sys.builddir, "llvm.obj.1")
                [] k = 2 -> path_join(sys.builddir, "llvm.obj.2")
                [] k = 3 -> path_join(sys.builddir, "llvm.obj.3")

\* the configure and build invocations so far, in order
StageCalls == SelectSeq(calls, LAMBDA c : c.cmd \in {"configure", "build"})
Invocations == [i \in 1..Len(StageCalls) |-> <<StageCalls[i].cmd, StageCalls[i].dir>>]

\* the invocations of a complete run: stage 1, then stages 2 and 3 when bootstrapping
ExpectedInvocations(bootstrap) ==
    LET stage(k) == << <<"configure", obj_dir(k)>>, <<"build", obj_dir(k)>> >>
    IN  IF bootstrap THEN stage(1) \o stage(2) \o stage(3) ELSE stage(1)

AllExitZero == \A i \in 1..Len(calls) : calls[i].ok

\* build_step is over and its stage 1 was configured and built with exit status zero
Stage1Built ==
    /\ pc # "build"
    /\ Len(StageCalls) >= 2
    /\ StageCalls[1].ok /\ StageCalls[2].ok

\* C1: whenever a call of build_with_prev_stage (stage 2 or 3) has ended, by returning
\* or by raising, $PATH has the value it had when the call began.
C1_PathRestoredAfterStage ==
    \A i \in 1..Len(stage_log) :
        stage_log[i].environ_after["PATH"] = stage_log[i].environ_before["PATH"]

\* C2: a bootstrap run of Clang whose configure and build subprocesses all exit with
\* status zero gets through build_step: both later stages return normally and the
\* six invocations configure1, build1, ..., configure3, build3 were made in that order.
C2_BootstrapReachesDone ==
    (cfg.bootstrap /\ Stage1Built /\ AllExitZero) =>
        /\ Len(stage_log) = 2
        /\ \A i \in 1..Len(stage_log) : ~stage_log[i].raised
        /\ Invocations = ExpectedInvocations(TRUE)

\* C3: the configure and build invocations made so far are a prefix of the expected
\* sequence of the run (each build right after the configure of its own stage, no
\* stage twice), only the last of them can have failed, and a run with a failed
\* invocation is in the terminal failed state.
C3_StagesInOrderNoRetry ==
    /\ IsPrefix(Invocations, ExpectedInvocations(easyconfig.bootstrap))
    /\ \A i \in 1..(Len(StageCalls) - 1) : StageCalls[i].ok
    /\ (~AllExitZero) => pc = "failed"

C3_Witness ==
    /\ pc = "failed"
    /\ easyconfig.bootstrap
    /\ Len(calls) = 2
    /\ calls[1].cmd = "configure" /\ calls[1].ok
    /\ calls[2].cmd = "build" /\ ~calls[2].ok

\* C4: in a bootstrap run whose stage 1 was built, the three stage directories are
\* pairwise distinct and, for k = 2 and 3, stage k was configured with C and C++
\* compilers that lie in the bin directory of stage k-1.
C4_StageCompilersFromPreviousStage ==
    (cfg.bootstrap /\ Stage1Built /\ AllExitZero) =>
        /\ Cardinality({self.llvm_obj_dir_stage1, self.llvm_obj_dir_stage2,
                        self.llvm_obj_dir_stage3}) = 3
        /\ \A k \in {2, 3} :
             \E i \in 1..Len(calls) :
                /\ calls[i].cmd = "configure"
                /\ calls[i].dir = obj_dir(k)
                /\ ~IsNone(calls[i].cc) /\ ~IsNone(calls[i].cxx)
                /\ path_dirname(Val(calls[i].cc)) = path_join(obj_dir(k - 1), "bin")
                /\ path_dirname(Val(calls[i].cxx)) = path_join(obj_dir(k - 1), "bin")

\* C5: once __init__ has run on an easyconfig that asks for bootstrap under a name
\* other than Clang (in any case), the run has failed in __init__: no directory was
\* made, nothing was invoked, and the error is the bootstrap error whenever the
\* version is a supported one.
C5_BootstrapOnlyForClang ==
    (pc # "new" /\ easyconfig.bootstrap /\ str_lower(easyconfig.name) # S_clang) =>
        /\ pc = "failed"
        /\ made_dirs = {}
        /\ calls = <<>>
        /\ self.llvm_obj_dir_stage1 = None
        /\ (~version_less(easyconfig.version, MIN_VERSION)
               => err.kind = "BootstrapOnlyClang")

C5_Witness ==
    /\ pc = "failed"
    /\ easyconfig.bootstrap
    /\ easyconfig.name = N_Polly
    /\ err.kind = "BootstrapOnlyClang"
    /\ calls = <<>>

\* the expected files of the run: those of the easyconfig, then those of the profile
ExpectedFiles == easyconfig.sanity_check_paths.files \o self.check_files

\* C6: on a platform whose shared-library suffix is not 'so', the files handed to the
\* verifier hold every expected file that ends in '.so' with that suffix replaced by
\* the platform's, and every other expected file as it is.
C6_SuffixRewrittenOthersKept ==
    (sanity.ran /\ sys.shlib_ext # "so") =>
        \A f \in Range(ExpectedFiles) :
            IF ends_with_so(f)
            THEN [f EXCEPT ![Len(f)] = dot_ext(sys.shlib_ext)] \in Range(sanity.files)
            ELSE f \in Range(sanity.files)

\* C7: on every platform, an install that lacks an expected file, an expected
\* directory or a working smoke-test command does not pass sanity_check_step.
C7_IncompleteInstallRejected ==
    LET full == complete_install(Frame)
    IN  (sanity.ran /\ (install.files # full.files \/ install.dirs # full.dirs
                           \/ install.commands # full.commands))
            => ~sanity.passed

\* a test target has just been run and its output interpreted
JustInterpreted ==
    \/ pc = "tested"
    \/ pc = "failed" /\ err.kind \in {"UnparsableTestOutput", "TooManyFailedTests"}

LastRun == test_runs[Len(test_runs)]

\* line is: one or more spaces, word, one or more spaces, ':', one or more spaces,
\* the digits, and no further digit
IsSummaryLine(line, word, digits) ==
    \E a \in 1..Len(line) :
        /\ IsPrefix(spaces(a) \o word, line)
        /\ \E b \in 1..Len(line) :
              /\ IsPrefix(spaces(a) \o word \o spaces(b) \o <<":">>, line)
              /\ \E c \in 1..Len(line) :
                    LET head == spaces(a) \o word \o spaces(b) \o <<":">>
                                    \o spaces(c) \o digits
                    IN  /\ IsPrefix(head, line)
                        /\ Len(line) > Len(head) =>
                               line[Len(head) + 1] \notin Range(DIGITS)

SummaryLines(out, word) ==
    {i \in 1..Len(out) : \E d \in COUNTS : IsSummaryLine(out[i], word, d)}

count_value(d) == CASE d = <<"0">> -> 0
                    [] d = <<"1">> -> 1
                    [] d = <<"3">> -> 3
                    [] d = <<"1", "0">> -> 10

\* C8: the failure count of a target is the N of the first line of its output of the
\* form '   Failed   : N' if there is one (whether or not a Passed line is there too),
\* 0 if there is none but there is a line '   Passed   : M', and if there is neither
\* the test step ends with a fatal error.
C8_FailureCountInterpreted ==
    JustInterpreted =>
        LET failed_lines == SummaryLines(test_out, S_Failed)
            passed_lines == SummaryLines(test_out, S_Passed)
            first == CHOOSE i \in failed_lines : \A j \in failed_lines : i <= j
            N == CHOOSE d \in COUNTS : IsSummaryLine(test_out[first], S_Failed, d)
        IN  IF failed_lines # {} THEN LastRun.num_failed = Some(count_value(N))
            ELSE IF passed_lines # {} THEN LastRun.num_failed = Some(0)
            ELSE /\ LastRun.num_failed = None
                 /\ pc = "failed"
                 /\ err.kind = "UnparsableTestOutput"

C8_Witness ==
    /\ JustInterpreted
    /\ test_out = << summary_line(Len(S_lld), S_Passed, <<"1", "0">>),
                     summary_line(Len(S_lld), S_Failed, <<"3">>) >>
    /\ LastRun.num_failed = Some(3)

\* C9: a target whose failure count was extracted ends the test step with the error
\* 'too many failed tests', carrying that count, exactly when the count is greater
\* than test_suite_max_failed; every target run before it stayed within the
\* threshold on its own, whatever the counts add up to.
C9_ThresholdPerTarget ==
    (JustInterpreted /\ ~IsNone(LastRun.num_failed)) =>
        LET n == Val(LastRun.num_failed)
        IN  /\ (pc = "failed") <=> (n > cfg.test_suite_max_failed)
            /\ (pc = "failed") => err = error("TooManyFailedTests", <<n>>)
            /\ \A i \in 1..(Len(test_runs) - 1) :
                  Val(test_runs[i].num_failed) <= cfg.test_suite_max_failed

C9_Witness ==
    /\ pc = "tested"
    /\ cfg.test_suite_max_failed = 1
    /\ Len(test_runs) = 2
    /\ test_runs[1].num_failed = Some(1)
    /\ test_runs[2].num_failed = Some(1)

\* C10: with no build_targets in the easyconfig and a host architecture of the
\* table, the build targets set by __init__ are the single default backend of the
\* architecture, then NVPTX iff CUDA is a dependency or the toolchain is a CUDA
\* toolchain, then AMDGPU iff ROCR-Runtime is a dependency.
C10_DefaultTargets ==
    (/\ pc # "new"
     /\ err.kind \notin {"UnsupportedVersion", "BootstrapOnlyClang"}
     /\ IsNone(easyconfig.build_targets)
     /\ sys.arch \in DOMAIN DEFAULT_TARGETS_MAP) =>
        /\ Len(DEFAULT_TARGETS_MAP[sys.arch]) = 1
        /\ cfg.build_targets =
             Some(DEFAULT_TARGETS_MAP[sys.arch]
                  \o (IF "CUDA" \in sys.deps \/ sys.cuda_toolchain
                      THEN <<"NVPTX">> ELSE <<>>)
                  \o (IF "ROCR-Runtime" \in sys.deps THEN <<"AMDGPU">> ELSE <<>>))

C10_Witness ==
    /\ pc # "new"
    /\ IsNone(easyconfig.build_targets)
    /\ sys.arch = AARCH64
    /\ {"CUDA", "ROCR-Runtime"} \subseteq sys.deps
    /\ cfg.build_targets = Some(<<"AArch64", "NVPTX", "AMDGPU">>)

\* the explicit build_targets list of the easyconfig, when it has one and __init__
\* got as far as looking at it
ExplicitTargetsSeen ==
    /\ pc # "new"
    /\ ~IsNone(easyconfig.build_targets)
    /\ err.kind \notin {"UnsupportedVersion", "BootstrapOnlyClang"}

GivenTargets == Val(easyconfig.build_targets)

\* the positions of the given list that hold a name outside CLANG_TARGETS
UnknownPositions == {i \in 1..Len(GivenTargets) : GivenTargets[i] \notin Range(CLANG_TARGETS)}

\* C11: an explicit build_targets list with a name outside CLANG_TARGETS makes
\* __init__ raise an error whose offending targets are the unknown names of the list,
\* in the order of the list and as often as they occur, and no known name; a list of
\* known names without MBlaze raises no such error.
C11_UnknownTargetsReported ==
    ExplicitTargetsSeen =>
        /\ (UnknownPositions # {}) <=> (err.kind = "UnknownTargets")
        /\ (UnknownPositions # {}) =>
              /\ pc = "failed"
              /\ Len(err.info) = Cardinality(UnknownPositions)
              /\ \A i \in UnknownPositions :
                    err.info[Cardinality({j \in UnknownPositions : j <= i})] = GivenTargets[i]
        /\ (UnknownPositions = {} /\ "MBlaze" \notin Range(GivenTargets)) =>
              err.kind \notin {"UnknownTargets", "MBlazeUnsupported"}

C11_Witness ==
    /\ ExplicitTargetsSeen
    /\ GivenTargets = <<"Bogus", "X86", "x86">>
    /\ pc = "failed"
    /\ err = error("UnknownTargets", <<"Bogus", "x86">>)

\* the values given to LLVM_TARGETS_TO_BUILD in the configure flags
TargetsToBuild ==
    {cfg.configopts[i].value : i \in {j \in 1..Len(cfg.configopts) :
                                         cfg.configopts[j].name = "LLVM_TARGETS_TO_BUILD"}}

\* the positions of s that hold the first occurrence of their element
FirstOccurrences(s) == {i \in 1..Len(s) : \A j \in 1..(i - 1) : s[j] # s[i]}

\* C12: the backend names given to LLVM_TARGETS_TO_BUILD hold no name twice, for the
\* computed defaults and for every explicit list __init__ accepts (one that repeats
\* a name included), and are the selected targets in the order of first occurrence.
C12_TargetsToBuildDeduplicated ==
    \A value \in TargetsToBuild :
        LET selected == IF IsNone(easyconfig.build_targets)
                        THEN Val(cfg.build_targets) ELSE GivenTargets
            first == FirstOccurrences(selected)
        IN  /\ \A i, j \in 1..Len(value) : i # j => value[i] # value[j]
            /\ Len(value) = Cardinality(first)
            /\ \A i \in first : value[Cardinality({j \in first : j <= i})] = selected[i]

\* the run of the scenario: Polly, no bootstrap, build_targets = ['X86']
PollyScenario ==
    /\ str_lower(easyconfig.name) = S_polly
    /\ ~easyconfig.bootstrap
    /\ easyconfig.build_targets = Some(<<"X86">>)

\* configure_step has returned
Configured == Len(calls) >= 1 /\ calls[1].cmd = "configure" /\ calls[1].ok

\* C13: in the Polly scenario, once configure_step has returned the expected files
\* include lib/LLVMPolly.so, lib/libPolly.a and lib/libPollyISL.a, the expected
\* directories include lib/cmake/polly and include/polly, the test targets are
\* exactly [check-polly], and once build_step is over exactly one stage has run: one
\* configure and one build, both in the stage-1 directory, the only one made.
C13_PollyScenario ==
    (PollyScenario /\ Configured) =>
        /\ {shlib("lib/LLVMPolly"), file("lib/libPolly.a"), file("lib/libPollyISL.a")}
              \subseteq Range(self.check_files)
        /\ {"lib/cmake/polly", "include/polly"} \subseteq Range(self.check_dirs)
        /\ self.test_targets = <<"check-polly">>
        /\ made_dirs = {obj_dir(1)}
        /\ pc # "build" => Invocations = << <<"configure", obj_dir(1)>>,
                                            <<"build", obj_dir(1)>> >>

C13_Witness == PollyScenario /\ Configured /\ AllExitZero /\ pc = "done"

\* the errors __init__ raises
InitErrors == {"UnsupportedVersion", "BootstrapOnlyClang", "NoDefaultTargets",
               "UnknownTargets", "MBlazeUnsupported"}

\* configure_step has been entered and has ended, by returning or by raising
ConfigureEnded == pc \notin {"new", "configure"} /\ err.kind \notin InitErrors

\* the dependencies the Clang profile cannot do without, and those of them not loaded
HardDependencies == {"LLVM", "LLVMruntimes", "lld", "compiler-rt"}
MissingHard == HardDependencies \ sys.deps
GccMissing == {"GCC", "GCCcore"} \cap sys.deps = {}

\* C14: for the Clang project, when the LLVM install, LLVMruntimes, lld, compiler-rt
\* or both of GCCcore and GCC cannot be resolved, configure_step raises an error that
\* names a missing dependency and CMake is not invoked in the run.
C14_ClangHardDependencies ==
    (/\ ConfigureEnded
     /\ str_lower(easyconfig.name) = S_clang
     /\ (MissingHard # {} \/ GccMissing)) =>
        /\ pc = "failed"
        /\ err.kind = "MissingDependency"
        /\ \/ \E d \in MissingHard : err.info = <<d>>
           \/ GccMissing /\ err.info = <<"GCC", "GCCcore">>
        /\ calls = <<>>

C14_Witness ==
    /\ ConfigureEnded
    /\ str_lower(easyconfig.name) = S_clang
    /\ MissingHard = {}
    /\ GccMissing
    /\ err = error("MissingDependency", <<"GCC", "GCCcore">>)
    /\ calls = <<>>

\* C15: in rpath mode, whenever a call of build_with_prev_stage has ended, CFLAGS and
\* CXXFLAGS have the values they had right before the call, so that the
\* warning-suppression flag is not carried into the next stage.
C15_FlagsRestoredAfterStage ==
    sys.rpath =>
        \A i \in 1..Len(stage_log) :
            /\ stage_log[i].environ_after["CFLAGS"] = stage_log[i].environ_before["CFLAGS"]
            /\ stage_log[i].environ_after["CXXFLAGS"] = stage_log[i].environ_before["CXXFLAGS"]

\* C16: an explicit build_targets list that holds MBlaze makes __init__ fail with a
\* configuration error, whatever the version and the other names of the list, although
\* MBlaze is a name of CLANG_TARGETS; when the version is supported and every name is
\* known, the error is the one that rejects MBlaze.
C16_MBlazeRejected ==
    /\ "MBlaze" \in Range(CLANG_TARGETS)
    /\ (/\ pc # "new"
        /\ ~IsNone(easyconfig.build_targets)
        /\ "MBlaze" \in Range(GivenTargets)) =>
          /\ pc = "failed"
          /\ err.kind \in InitErrors
          /\ calls = <<>>
          /\ made_dirs = {}
          /\ (ExplicitTargetsSeen /\ UnknownPositions = {}) => err.kind = "MBlazeUnsupported"

C16_Witness ==
    /\ pc = "failed"
    /\ ~IsNone(easyconfig.build_targets)
    /\ GivenTargets = <<"X86", "MBlaze", "ARM">>
    /\ easyconfig.version = <<19, 1, 0>>
    /\ err.kind = "MBlazeUnsupported"

\* __init__ looked for default targets: the easyconfig gives none and the version
\* and bootstrap checks passed
DefaultTargetsWanted ==
    /\ pc # "new"
    /\ IsNone(easyconfig.build_targets)
    /\ err.kind \notin {"UnsupportedVersion", "BootstrapOnlyClang"}

\* every architecture of the table has one default backend, a run on such an
\* architecture gets past the default selection, and a run on any other architecture
\* fails in __init__ with an error that names the architecture
DefaultTableDecides ==
    /\ \A a \in DOMAIN DEFAULT_TARGETS_MAP : Len(DEFAULT_TARGETS_MAP[a]) = 1
    /\ DefaultTargetsWanted =>
          IF sys.arch \in DOMAIN DEFAULT_TARGETS_MAP
          THEN err.kind # "NoDefaultTargets"
          ELSE /\ pc = "failed"
               /\ err = error("NoDefaultTargets", <<sys.arch>>)
               /\ calls = <<>>

\* C17 as stated: the table of default targets supports exactly four host
\* architectures, each with a single default backend, and without explicit targets
\* any other architecture makes __init__ fail with an error naming the architecture.
C17_FourArchitectures ==
    /\ Cardinality(DOMAIN DEFAULT_TARGETS_MAP) = 4
    /\ DefaultTableDecides

\* C17 amended: the table supports exactly five host architectures (AArch32, AArch64,
\* POWER, RISC-V 64 and x86_64), each with a single default backend, and without
\* explicit targets any other architecture makes __init__ fail with an error naming
\* the architecture.
C17_FiveArchitectures ==
    /\ DOMAIN DEFAULT_TARGETS_MAP = {AARCH32, AARCH64, POWER, RISCV64, X86_64}
    /\ Cardinality(DOMAIN DEFAULT_TARGETS_MAP) = 5
    /\ DefaultTableDecides

C17_Witness ==
    /\ DefaultTargetsWanted
    /\ sys.arch \notin DOMAIN DEFAULT_TARGETS_MAP
    /\ pc = "failed"
    /\ err = error("NoDefaultTargets", <<sys.arch>>)

\* the test targets invoked so far, in order
InvokedTargets == [i \in 1..Len(test_runs) |-> test_runs[i].target]

\* the i-th invoked target had an interpretable output within the threshold
TargetPassed(i) ==
    /\ ~IsNone(test_runs[i].num_failed)
    /\ Val(test_runs[i].num_failed) <= cfg.test_suite_max_failed

\* test_step has returned, or has raised
TestReturned ==
    \/ pc \in {"install", "postinstall", "sanity", "module", "done"}
    \/ \E i \in 1..Len(calls) : calls[i].cmd = "install"
TestRaised == pc = "failed" /\ err.kind \in {"UnparsableTestOutput", "TooManyFailedTests"}

\* the invoked targets are a prefix of test_targets, none is invoked when
\* skip_all_tests is set, and a target that does not pass is the last one invoked
\* and ends the test step with an error
TargetsInOrderUntilFailure ==
    /\ IsPrefix(InvokedTargets, self.test_targets)
    /\ easyconfig.skip_all_tests => InvokedTargets = <<>>
    /\ \A i \in 1..Len(test_runs) :
          ~TargetPassed(i) => (i = Len(test_runs) /\ TestRaised)
    /\ (TestReturned /\ ~easyconfig.skip_all_tests) =>
          /\ InvokedTargets = self.test_targets
          /\ \A i \in 1..Len(test_runs) : TargetPassed(i)

\* C18 as stated: the invoked targets are a prefix of the test targets in listed
\* order, empty when skip_all_tests is set, stopping right after the first target
\* that does not pass, and once test_step has ended they are the whole list exactly
\* when every target of the list passed.
C18_WholeListIffAllPass ==
    /\ TargetsInOrderUntilFailure
    /\ (TestReturned \/ TestRaised) =>
          ((InvokedTargets = self.test_targets)
              <=> \A i \in 1..Len(self.test_targets) :
                      i <= Len(test_runs) /\ TargetPassed(i))

\* C18 amended: as above, but a last target that fails has been invoked too: with
\* tests not skipped, once test_step has ended the invoked targets are the whole list
\* exactly when every target before the last passed, and they are the whole list
\* whenever every target passed.
C18_WholeListIffNoneBeforeLastFails ==
    /\ TargetsInOrderUntilFailure
    /\ ((TestReturned \/ TestRaised) /\ ~easyconfig.skip_all_tests) =>
          ((InvokedTargets = self.test_targets)
              <=> \A i \in 1..(Len(self.test_targets) - 1) :
                      i <= Len(test_runs) /\ TargetPassed(i))

C18_Witness ==
    /\ TestRaised
    /\ Len(self.test_targets) > 1
    /\ InvokedTargets = self.test_targets
    /\ ~TargetPassed(Len(test_runs))

\* line is: any number of spaces (none included), word, one or more spaces, ':',
\* one or more spaces, the digits, and no further digit
IsSummaryLineAnyLead(line, word, digits) ==
    \E a \in 0..Len(line) :
        /\ IsPrefix(spaces(a) \o word, line)
        /\ \E b \in 1..Len(line) :
              /\ IsPrefix(spaces(a) \o word \o spaces(b) \o <<":">>, line)
              /\ \E c \in 1..Len(line) :
                    LET head == spaces(a) \o word \o spaces(b) \o <<":">>
                                    \o spaces(c) \o digits
                    IN  /\ IsPrefix(head, line)
                        /\ Len(line) > Len(head) =>
                               line[Len(head) + 1] \notin Range(DIGITS)

SummaryLinesAnyLead(out, word) ==
    {i \in 1..Len(out) : \E d \in COUNTS : IsSummaryLineAnyLead(out[i], word, d)}

\* C19 as stated: summary lines are recognized with any number of leading spaces,
\* none included: the failure count of a target is the N of its first line
\* 'Failed : N', also when that line starts in column 0, and 0 when there is no such
\* line but a line 'Passed : M', also one that starts in column 0.
C19_AnyLeadingWhitespace ==
    JustInterpreted =>
        LET failed_lines == SummaryLinesAnyLead(test_out, S_Failed)
            passed_lines == SummaryLinesAnyLead(test_out, S_Passed)
            first == CHOOSE i \in failed_lines : \A j \in failed_lines : i <= j
            N == CHOOSE d \in COUNTS : IsSummaryLineAnyLead(test_out[first], S_Failed, d)
        IN  /\ failed_lines # {} => LastRun.num_failed = Some(count_value(N))
            /\ (failed_lines = {} /\ passed_lines # {}) => LastRun.num_failed = Some(0)

\* C19 amended: a summary line is recognized only after one or more leading spaces: a
\* line 'Failed : N' or 'Passed : M' that starts in column 0 counts for nothing, and
\* an output whose summary lines all start in column 0 ends the test step with the
\* error of an output that cannot be interpreted, while one leading space is enough
\* for a count to be extracted.
C19_LeadingSpaceRequired ==
    JustInterpreted =>
        LET indented == SummaryLines(test_out, S_Failed) \cup SummaryLines(test_out, S_Passed)
        IN  /\ (indented = {}) <=> (LastRun.num_failed = None)
            /\ (indented = {}) => (pc = "failed" /\ err.kind = "UnparsableTestOutput")
            /\ LastRun.num_failed = num_failed_of(SelectSeq(test_out,
                   LAMBDA l : \E w \in {S_Failed, S_Passed}, d \in COUNTS :
                                  IsSummaryLine(l, w, d)))

C19_Witness ==
    /\ JustInterpreted
    /\ test_out = << summary_line(0, S_Failed, <<"3">>) >>
    /\ LastRun.num_failed = None
    /\ err.kind = "UnparsableTestOutput"

\* the projects configure_step has a profile for
RecognizedProjects == {S_clang, S_flang, S_polly, S_mlir, S_lld, S_lldb, S_compiler_rt,
                       S_runtimes}

\* C20: once configure_step has returned for a recognized project (for Clang: with
\* llvm-gtest found), the test targets are a non-empty list, and a test step that is
\* not skipped and has returned has invoked at least one target.
C20_EveryProjectHasTestTargets ==
    (/\ Configured
     /\ self.project_name \in RecognizedProjects
     /\ (self.project_name = S_clang => sys.has_gtest)) =>
        /\ self.test_targets # <<>>
        /\ (TestReturned /\ ~easyconfig.skip_all_tests) => test_runs # <<>>

\* the values given to LLVM_INCLUDE_TESTS in the configure flags
IncludeTests ==
    {cfg.configopts[i].value : i \in {j \in 1..Len(cfg.configopts) :
                                         cfg.configopts[j].name = "LLVM_INCLUDE_TESTS"}}

\* a Clang run on a host where llvm-gtest is not found
ClangWithoutGtest == self.project_name = S_clang /\ ~sys.has_gtest

\* C21: for Clang without llvm-gtest, configure_step does not fail for want of it (a
\* missing-dependency error is about one of the hard dependencies); once it has
\* returned a warning is logged, LLVM_INCLUDE_TESTS is OFF and the test targets are
\* empty; and test_step neither invokes a target nor raises: it returns.
C21_NoGtestDisablesTests ==
    (ConfigureEnded /\ ClangWithoutGtest) =>
        /\ err.kind = "MissingDependency" => (MissingHard # {} \/ GccMissing)
        /\ Configured =>
              /\ self.warnings # <<>>
              /\ IncludeTests = {<<"OFF">>}
              /\ self.test_targets = <<>>
        /\ test_runs = <<>>
        /\ pc \notin {"testing", "tested"}
        /\ ~TestRaised

C21_Witness ==
    /\ ClangWithoutGtest
    /\ ~easyconfig.skip_all_tests
    /\ Configured
    /\ pc = "install"
    /\ test_idx = 1
    /\ test_runs = <<>>
    /\ IncludeTests = {<<"OFF">>}

\* post_install_step copied the bindings into lib/python
BindingsCopied == \E c \in copied : c.target = <<"lib", "python">>

\* the module file prepends lib/python to PYTHONPATH
PythonPathPrepended ==
    \E i \in 1..Len(module_txt) : module_txt[i] = prepend_paths("PYTHONPATH", <<"lib", "python">>)

\* C22: in a run that ended well, the bindings were copied into lib/python by
\* post_install_step exactly when make_module_extra emitted the prepend of lib/python
\* on PYTHONPATH.
C22_CopyIffPythonPath ==
    pc = "done" => (BindingsCopied <=> PythonPathPrepended)

\* the build targets of the run, given or computed by __init__
BuildTargets == IF IsNone(cfg.build_targets) THEN {} ELSE Range(Val(cfg.build_targets))

\* NVPTX is to be built and neither the build option nor the easyconfig gives a
\* CUDA compute capability
NvptxWithoutCapabilities ==
    /\ "NVPTX" \in BuildTargets
    /\ sys.cuda_compute_capabilities = <<>>
    /\ easyconfig.cuda_compute_capabilities = <<>>

\* AMDGPU is to be built and ROCR-Runtime is not loaded or amd_gfx_list is empty
AmdgpuWithoutSettings ==
    /\ "AMDGPU" \in BuildTargets
    /\ ("ROCR-Runtime" \notin sys.deps \/ easyconfig.amd_gfx_list = <<>>)

GpuErrors == {"MissingCudaCapabilities", "MissingDependency", "MissingAmdGfxList"}

\* C23: when NVPTX is among the build targets and no CUDA compute capabilities are
\* given, or AMDGPU is among them and ROCR-Runtime is not loaded or amd_gfx_list is
\* empty, configure_step raises and no configure subprocess is run.
C23_GpuSettingsRequired ==
    (ConfigureEnded /\ (NvptxWithoutCapabilities \/ AmdgpuWithoutSettings)) =>
        /\ pc = "failed"
        /\ err.kind \in GpuErrors
        /\ calls = <<>>

C23_Witness ==
    /\ ConfigureEnded
    /\ ~IsNone(easyconfig.build_targets)
    /\ "AMDGPU" \in BuildTargets
    /\ "ROCR-Runtime" \in sys.deps
    /\ ~NvptxWithoutCapabilities
    /\ easyconfig.amd_gfx_list = <<>>
    /\ err = error("MissingAmdGfxList", <<>>)
    /\ calls = <<>>

\* the compute capabilities the run asks for: the build option overrules the easyconfig
RequestedCapabilities ==
    IF sys.cuda_compute_capabilities # <<>> THEN sys.cuda_compute_capabilities
    ELSE easyconfig.cuda_compute_capabilities

\* the number a capability "major.minor" stands for, as major * 100 + minor
capability_value(cc) ==
    LET dot == CHOOSE i \in 1..Len(cc) : cc[i] = "."
    IN  int_of(SubSeq(cc, 1, dot - 1)) * 100 + int_of(SubSeq(cc, dot + 1, Len(cc)))

\* the entries of the requested list no other entry is numerically below
NumericallySmallest ==
    {c \in Range(RequestedCapabilities) :
        \A o \in Range(RequestedCapabilities) : capability_value(c) <= capability_value(o)}

\* C24: when NVPTX is among the build targets, capabilities are requested and
\* default_cuda_capability is unset, configure_step does not fail for that, logs a
\* warning, and CLANG_OPENMP_NVPTX_DEFAULT_ARCH is sm_ followed by the numerically
\* smallest requested capability without its dot.
C24_DefaultArchNumericMinimum ==
    (/\ ConfigureEnded
     /\ "NVPTX" \in BuildTargets
     /\ RequestedCapabilities # <<>>
     /\ IsNone(easyconfig.default_cuda_capability)) =>
        /\ err.kind # "MissingCudaCapabilities"
        /\ Configured =>
              /\ "No default CUDA capability defined!" \in Range(self.warnings)
              /\ \E c \in NumericallySmallest :
                    opt("CLANG_OPENMP_NVPTX_DEFAULT_ARCH",
                        <<"s", "m", "_">> \o str_delete_char(c, ".")) \in Range(cfg.configopts)

\* the output directory of the last stage a run builds
LastStageDir == IF easyconfig.bootstrap THEN obj_dir(3) ELSE obj_dir(1)

\* the install subprocess invocations so far
InstallCalls == SelectSeq(calls, LAMBDA c : c.cmd = "install")

\* C25: test_step and install_step work in the output directory of the last stage:
\* stage 3 when bootstrap is enabled, stage 1 otherwise. While the test targets are
\* run the working directory is that directory, 'make install' is run in it, and on
\* any state configure_step left behind it is the directory both steps change to.
C25_FinalStageDirectory ==
    /\ (pc \in {"testing", "tested"} \/ TestRaised) => cwd = LastStageDir
    /\ \A i \in 1..Len(InstallCalls) : InstallCalls[i].dir = LastStageDir
    /\ ~IsNone(install.from_dir) => install.from_dir = Some(LastStageDir)
    /\ Configured => final_stage_dir(Frame) = Some(LastStageDir)

C25_Witness ==
    /\ ~easyconfig.bootstrap
    /\ ~easyconfig.skip_all_tests
    /\ test_runs # <<>>
    /\ Len(InstallCalls) = 1
    /\ InstallCalls[1].ok
    /\ InstallCalls[1].dir = obj_dir(1)
    /\ install.from_dir = Some(obj_dir(1))
    /\ cwd = obj_dir(1)

====
